---- MODULE Spec2Model ----
(***************************************************************************)
(* remote-temperature: a client that polls one-wire temperature sensors    *)
(* and ships each reading over XML-RPC to a server that appends it to an   *)
(* sqlite table.                                                           *)
(*                                                                         *)
(*   client: remote-temperature-client/remotetemperature/client/__init__.py*)
(*   server: remote-temperature-server/remotetemperature/server/__init__.py*)
(*   test  : test/test_remote_temperature.py, test/w1thermsensor           *)
(***************************************************************************)
EXTENDS Integers, Sequences, FiniteSets, TLC

(* ---------------------------- bounds ---------------------------------- *)

\* poll cycles the client may start
MaxCycles == 2
\* readings the sensors may yield in all (reads that raise are not counted)
MaxReadings == 2
\* length of the fake sensor's temperature file in the end-to-end scenario
MaxTemps == 3
\* temperatures and sanity bounds given to _check_temperature_sanity on its
\* own are -SanityRange..SanityRange
SanityRange == 2
\* times the server process is started on the same database path
MaxStarts == 2
\* record_temperature calls the clients of the server make in all
MaxCalls == 2

\* temperatures a sensor may yield: below, at and above the sanity bounds
Temps == {-1, 0, 1}

(* ----------------------- optional numbers ----------------------------- *)

\* args.sanity_check_low / args.sanity_check_high are a float or None
None == [none |-> TRUE, v |-> 0]
Some(x) == [none |-> FALSE, v |-> x]

SanityLows == {None, Some(0)}
SanityHighs == {None, Some(0)}

(* ----------------------------- state ---------------------------------- *)

VARIABLES
    \* ---- client (RemoteTemperatureClient) ----
    conf,        \* _device_id, _period, _sanity_check_low, _sanity_check_high
    quit,        \* _quit
    pc,          \* position of run_forever
    cycle,       \* number of poll cycles started
    sensors,     \* the tuple returned by get_available_sensors() this cycle
    idx,         \* position of the for loop in sensors
    temperature, \* local of _read_and_record_temperature
    timestamp,   \* local of _read_and_record_temperature
    clock,       \* datetime.datetime.now(), advanced by every read
    \* ---- transport ----
    rpc,         \* the record_temperature call in flight
    \* ---- server (RemoteTemperatureServer, TemperatureRecorder, DBClient) ----
    srv,         \* "serving" or "stopped"
    spc,         \* position of the request handler: "idle" or "commit"
    handling,    \* fields of the call the handler is working on
    committed,   \* rows of table temperatures that are committed
    pending,     \* rows inserted in the connection's open transaction
    dbTables,    \* number of tables named temperatures in the database file
    starts,      \* number of times the server process was started
    calls,       \* per client of the server: its record_temperature call
    threads,     \* per client of the server: the handler of its call
    \* ---- fake sensor of the test (FakeSensor) ----
    fakeTemps,   \* _temps
    current,     \* _current
    fileExists,  \* FAKE_SENSOR_PATH exists
    \* ---- history ----
    outcome,     \* how the last _read_and_record_temperature ended
    nread,       \* sensors read in the current poll cycle
    rpcLog,      \* every record_temperature call issued by the client
    writeLog,    \* every DBClient.write call and whether it raised
    quitCycle    \* value of cycle when quit() was first called, 0 before

clientVars == <<conf, quit, pc, cycle, sensors, idx, temperature, timestamp, clock>>
serverVars == <<srv, spc, handling, committed, pending, dbTables, starts, calls, threads>>
fakeVars == <<fakeTemps, current, fileExists>>
histVars == <<outcome, nread, rpcLog, writeLog, quitCycle>>
vars == <<clientVars, rpc, serverVars, fakeVars, histVars>>

NoRpc == [kind |-> "none"]
NoFields == [device_id |-> "", sensor_id |-> "", time |-> 0, temperature |-> 0]

\* the clients that call the server concurrently
Clients == {"c1", "c2"}
NoCalls == [c \in Clients |-> NoRpc]
NoThreads == [c \in Clients |-> [pc |-> "idle", fields |-> NoFields]]

(* ------------------------ client: pure parts -------------------------- *)

\* faulty variant: the thresholds themselves are rejected (<= and >=)
CheckTemperatureSanityExclusive(t, low, high) ==
    IF (~low.none) /\ t <= low.v THEN FALSE
    ELSE IF (~high.none) /\ t >= high.v THEN FALSE
    ELSE TRUE

\* faulty variant: the high threshold is never tested
CheckTemperatureSanityLowOnly(t, low, high) ==
    IF (~low.none) /\ t < low.v THEN FALSE
    ELSE TRUE

\* _check_temperature_sanity: TRUE iff no SanityCheckError is raised
CheckTemperatureSanity(t, low, high) ==
    IF (~low.none) /\ t < low.v THEN FALSE
    ELSE IF (~high.none) /\ t > high.v THEN FALSE
    ELSE TRUE

\* the except clauses of _read_and_record_temperature
ExceptionCaught(e) ==
    e \in {"W1ThermSensorError", "SanityCheckError", "Fault",
           "ProtocolError", "ConnectionError"}

\* what the transport can raise out of self._rpc_proxy.record_temperature(...)
TransportFailures == {"Fault", "ProtocolError", "ConnectionError", "TimeoutError"}

(* ------------------------ server: pure parts -------------------------- *)

\* faulty variant: write lets sqlite3.Error through instead of raising DBError
WriteRaisesSqliteError(sqliteOutcome) ==
    IF sqliteOutcome = "ok" THEN "none" ELSE "sqlite3.Error"

\* DBClient.write: the exception that leaves write for an sqlite3 outcome
WriteRaises(sqliteOutcome) ==
    IF sqliteOutcome = "ok" THEN "none" ELSE "DBError"

\* TemperatureRecorder.record_temperature: what the dispatcher sends back
RecordTemperatureReply(exc) ==
    IF exc = "DBError" THEN [kind |-> "value", result |-> 1]
    ELSE IF exc = "none" THEN [kind |-> "value", result |-> 0]
    ELSE [kind |-> "fault", result |-> 1]

(* ------------------------------ Init ---------------------------------- *)

InitCommon ==
    /\ quit = FALSE
    /\ pc = "while"
    /\ cycle = 0
    /\ sensors = <<>>
    /\ idx = 1
    /\ temperature = 0
    /\ timestamp = 0
    /\ clock = 0
    /\ rpc = NoRpc
    /\ srv = "serving"
    /\ spc = "idle"
    /\ handling = NoFields
    /\ committed = <<>>
    /\ pending = <<>>
    /\ dbTables = 1
    /\ starts = 1
    /\ calls = NoCalls
    /\ threads = NoThreads
    /\ current = 0
    /\ outcome = "none"
    /\ nread = 0
    /\ rpcLog = <<>>
    /\ writeLog = <<>>
    /\ quitCycle = 0

Init ==
    /\ InitCommon
    /\ \E low \in SanityLows, high \in SanityHighs :
          conf = [device_id |-> "unknown", period |-> 60,
                  sanity_check_low |-> low, sanity_check_high |-> high]
    /\ fakeTemps = <<>>
    /\ fileExists = FALSE

(* --------------------------- client actions --------------------------- *)

\* faulty variant: the loop never tests self._quit (while True)
WhileTrue(enumerations, maxCycles) ==
    /\ pc = "while"
    /\ cycle < maxCycles
    /\ \E ss \in enumerations : sensors' = ss
    /\ idx' = 1
    /\ nread' = 0
    /\ cycle' = cycle + 1
    /\ pc' = "for"
    /\ UNCHANGED <<conf, quit, temperature, timestamp, clock, rpc, serverVars,
                   fakeVars, outcome, rpcLog, writeLog, quitCycle>>

\* run_forever: the test of `while not self._quit`, then
\* W1ThermSensor.get_available_sensors() when the loop body is entered
WhileTest(enumerations, maxCycles) ==
    /\ pc = "while"
    /\ IF quit
         THEN /\ pc' = "returned"
              /\ UNCHANGED <<cycle, sensors, idx, nread>>
         ELSE /\ cycle < maxCycles
              /\ \E ss \in enumerations : sensors' = ss
              /\ idx' = 1
              /\ nread' = 0
              /\ cycle' = cycle + 1
              /\ pc' = "for"
    /\ UNCHANGED <<conf, quit, temperature, timestamp, clock, rpc, serverVars,
                   fakeVars, outcome, rpcLog, writeLog, quitCycle>>

\* run_forever: `for sensor in ...` takes the next sensor or falls through
\* to time.sleep
ForNext ==
    /\ pc = "for"
    /\ pc' = IF idx <= Len(sensors) THEN "read" ELSE "sleep"
    /\ outcome' = "none"
    /\ UNCHANGED <<conf, quit, cycle, sensors, idx, temperature, timestamp,
                   clock, rpc, serverVars, fakeVars, nread, rpcLog, writeLog, quitCycle>>

\* an exception e raised inside the try block of _read_and_record_temperature:
\* a caught one is logged and the method returns, any other leaves run_forever
Raise(e) ==
    /\ outcome' = e
    /\ temperature' = 0
    /\ timestamp' = 0
    /\ IF ExceptionCaught(e)
         THEN pc' = "for" /\ idx' = idx + 1
         ELSE pc' = "crashed" /\ idx' = idx

\* _read_and_record_temperature, up to the RPC call: sensor.get_temperature(),
\* the timestamp, _check_temperature_sanity.  read is what get_temperature did.
ReadAndCheck(read) ==
    /\ pc = "read"
    /\ nread' = nread + 1
    /\ IF ~read.ok
         THEN /\ Raise("W1ThermSensorError")
              /\ UNCHANGED clock
         ELSE /\ clock' = clock + 1
              /\ IF CheckTemperatureSanity(read.t, conf.sanity_check_low,
                                           conf.sanity_check_high)
                   THEN /\ temperature' = read.t
                        /\ timestamp' = clock'
                        /\ pc' = "rpc"
                        /\ UNCHANGED <<idx, outcome>>
                   ELSE Raise("SanityCheckError")
    /\ UNCHANGED <<conf, quit, cycle, sensors, rpc, serverVars,
                   rpcLog, writeLog, quitCycle>>

\* a real sensor yields any temperature or raises W1ThermSensorError
ReadSensor ==
    /\ \E read \in {[ok |-> FALSE, t |-> 0]} \cup {[ok |-> TRUE, t |-> t] : t \in Temps} :
          /\ read.ok => clock < MaxReadings
          /\ ReadAndCheck(read)
    /\ UNCHANGED fakeVars

\* self._rpc_proxy.record_temperature(device_id, sensor.id, timestamp,
\* temperature): the request leaves the client
RpcCall ==
    /\ pc = "rpc"
    /\ LET fields == [device_id |-> conf.device_id, sensor_id |-> sensors[idx],
                      time |-> timestamp, temperature |-> temperature]
       IN /\ rpc' = [kind |-> "request", fields |-> fields]
          /\ rpcLog' = Append(rpcLog, [time |-> timestamp, temperature |-> temperature,
                                       cycle |-> cycle, afterQuit |-> quit])
    /\ pc' = "wait"
    /\ UNCHANGED <<conf, quit, cycle, sensors, idx, temperature, timestamp,
                   clock, serverVars, fakeVars, outcome, nread, writeLog, quitCycle>>

\* faulty variant: a non-zero status sends the same reading again
RpcReturnRetry ==
    /\ pc = "wait"
    /\ rpc.kind = "value"
    /\ outcome' = IF rpc.result # 0 THEN "status" ELSE "ok"
    /\ IF rpc.result # 0
         THEN pc' = "rpc" /\ UNCHANGED <<idx, temperature, timestamp>>
         ELSE pc' = "for" /\ idx' = idx + 1 /\ temperature' = 0 /\ timestamp' = 0
    /\ rpc' = NoRpc
    /\ UNCHANGED <<conf, quit, cycle, sensors, clock,
                   serverVars, fakeVars, nread, rpcLog, writeLog, quitCycle>>

\* the call returns the server's value: `if result != 0` logs, nothing else
RpcReturn ==
    /\ pc = "wait"
    /\ rpc.kind = "value"
    /\ outcome' = IF rpc.result # 0 THEN "status" ELSE "ok"
    /\ temperature' = 0
    /\ timestamp' = 0
    /\ pc' = "for"
    /\ idx' = idx + 1
    /\ rpc' = NoRpc
    /\ UNCHANGED <<conf, quit, cycle, sensors, clock,
                   serverVars, fakeVars, nread, rpcLog, writeLog, quitCycle>>

\* the call raises: a fault sent by the server, or a failure of the transport
\* at any moment of the call (before, while or after the server handles it)
RpcFail ==
    /\ pc = "wait"
    /\ \E e \in TransportFailures :
          /\ (rpc.kind = "fault") => (e = "Fault")
          /\ Raise(e)
    /\ rpc' = NoRpc
    /\ UNCHANGED <<conf, quit, cycle, sensors, clock,
                   serverVars, fakeVars, nread, rpcLog, writeLog, quitCycle>>

\* run_forever: time.sleep(self._period); a signal handled during the sleep
\* does not cut it short
Sleep ==
    /\ pc = "sleep"
    /\ pc' = "while"
    /\ UNCHANGED <<conf, quit, cycle, sensors, idx, temperature, timestamp,
                   clock, rpc, serverVars, fakeVars, histVars>>

\* faulty variant: quit() flips the flag instead of setting it
QuitToggles ==
    /\ pc \notin {"returned", "crashed"}
    /\ quit' = ~quit
    /\ quitCycle' = IF quit THEN quitCycle ELSE cycle
    /\ UNCHANGED <<conf, pc, cycle, sensors, idx, temperature, timestamp,
                   clock, rpc, serverVars, fakeVars, outcome, nread, rpcLog, writeLog>>

\* quit(), called by handle_sigterm on SIGINT/SIGTERM between any two steps
\* of run_forever
Quit ==
    /\ pc \notin {"returned", "crashed"}
    /\ quit' = TRUE
    /\ quitCycle' = IF quit THEN quitCycle ELSE cycle
    /\ UNCHANGED <<conf, pc, cycle, sensors, idx, temperature, timestamp,
                   clock, rpc, serverVars, fakeVars, outcome, nread, rpcLog, writeLog>>

(* --------------------------- server actions --------------------------- *)

\* what an sqlite3 statement can do: succeed; raise sqlite3.Error and leave
\* the open transaction as it is; raise sqlite3.Error after sqlite rolled the
\* open transaction back
SqliteOutcomes == {"ok", "error", "error_rollback"}

\* record_temperature is dispatched and DBClient.write runs
\* self._connection.execute("INSERT INTO temperatures ...")
SrvInsert(outcomes) ==
    /\ srv = "serving"
    /\ spc = "idle"
    /\ rpc.kind = "request"
    /\ \E o \in outcomes :
          IF o = "ok"
            THEN /\ pending' = Append(pending, rpc.fields)
                 /\ handling' = rpc.fields
                 /\ spc' = "commit"
                 /\ rpc' = [kind |-> "taken"]
                 /\ UNCHANGED writeLog
            ELSE /\ pending' = IF o = "error_rollback" THEN <<>> ELSE pending
                 /\ handling' = NoFields
                 /\ spc' = "idle"
                 /\ rpc' = RecordTemperatureReply(WriteRaises(o))
                 /\ writeLog' = Append(writeLog, [time |-> rpc.fields.time, ok |-> FALSE])
    /\ UNCHANGED <<clientVars, srv, committed, dbTables, starts, calls, threads,
                   fakeVars, outcome, nread, rpcLog, quitCycle>>

\* faulty variant: write returns without self._connection.commit()
SrvCommitMissing(outcomes) ==
    /\ srv = "serving"
    /\ spc = "commit"
    /\ \E o \in outcomes :
          /\ writeLog' = Append(writeLog, [time |-> handling.time, ok |-> (o = "ok")])
          /\ rpc' = IF rpc.kind = "taken" THEN RecordTemperatureReply(WriteRaises(o)) ELSE rpc
    /\ spc' = "idle"
    /\ handling' = NoFields
    /\ UNCHANGED <<clientVars, srv, committed, pending, dbTables, starts, calls,
                   threads, fakeVars, outcome, nread, rpcLog, quitCycle>>

\* faulty variant: the rows of the transaction are stored ahead of the rows
\* already in the table
SrvCommitAhead(outcomes) ==
    /\ srv = "serving"
    /\ spc = "commit"
    /\ \E o \in outcomes :
          /\ committed' = IF o = "ok" THEN pending \o committed ELSE committed
          /\ pending' = IF o = "error" THEN pending ELSE <<>>
          /\ writeLog' = Append(writeLog, [time |-> handling.time, ok |-> (o = "ok")])
          /\ rpc' = IF rpc.kind = "taken" THEN RecordTemperatureReply(WriteRaises(o)) ELSE rpc
    /\ spc' = "idle"
    /\ handling' = NoFields
    /\ UNCHANGED <<clientVars, srv, dbTables, starts, calls, threads,
                   fakeVars, outcome, nread, rpcLog, quitCycle>>

\* DBClient.write runs self._connection.commit(), then record_temperature
\* returns
SrvCommit(outcomes) ==
    /\ srv = "serving"
    /\ spc = "commit"
    /\ \E o \in outcomes :
          /\ committed' = IF o = "ok" THEN committed \o pending ELSE committed
          /\ pending' = IF o = "error" THEN pending ELSE <<>>
          /\ writeLog' = Append(writeLog, [time |-> handling.time, ok |-> (o = "ok")])
          /\ rpc' = IF rpc.kind = "taken" THEN RecordTemperatureReply(WriteRaises(o)) ELSE rpc
    /\ spc' = "idle"
    /\ handling' = NoFields
    /\ UNCHANGED <<clientVars, srv, dbTables, starts, calls, threads,
                   fakeVars, outcome, nread, rpcLog, quitCycle>>

(* --------------------------- specification ---------------------------- *)

\* get_available_sensors() returns the sensors present: none, one or two
Enumerations == {<<>>, <<"s1">>, <<"s1", "s2">>}

ClientStep ==
    \/ WhileTest(Enumerations, MaxCycles)
    \/ ForNext
    \/ ReadSensor
    \/ RpcCall
    \/ RpcReturn
    \/ Sleep

ServerStep ==
    \/ SrvInsert(SqliteOutcomes)
    \/ SrvCommit(SqliteOutcomes)

Next ==
    \/ ClientStep
    \/ RpcFail
    \/ Quit
    \/ ServerStep

Spec == Init /\ [][Next]_vars

(* ------------------- the end-to-end test scenario --------------------- *)

\* temperatures the test may leave in the fake sensor file
FakeTemperatures == {22, 23, 24}

\* sequences over S of length 1..n
RECURSIVE SeqsUpTo(_, _)
SeqsUpTo(S, n) ==
    IF n = 0 THEN {}
    ELSE SeqsUpTo(S, n - 1) \cup [1..n -> S]

\* test_remote_temperature: the server and the client are started with the
\* default sanity bounds, the fake sensor file holds fake_temps
InitE2E ==
    /\ InitCommon
    /\ conf = [device_id |-> "unknown", period |-> 0,
               sanity_check_low |-> Some(-15), sanity_check_high |-> Some(100)]
    /\ fakeTemps \in SeqsUpTo(FakeTemperatures, MaxTemps)
    /\ fileExists = TRUE

\* FakeSensor.get_temperature: the next temperature of the file, or
\* W1ThermSensorError once they are used up
FakeGetTemperature ==
    IF current < Len(fakeTemps)
      THEN [ok |-> TRUE, t |-> fakeTemps[current + 1]]
      ELSE [ok |-> FALSE, t |-> 0]

\* the client reads the fake sensor; the read that finds the temperatures
\* used up unlinks the file
FakeRead ==
    /\ ReadAndCheck(FakeGetTemperature)
    /\ current' = IF FakeGetTemperature.ok THEN current + 1 ELSE current
    /\ fileExists' = (FakeGetTemperature.ok /\ fileExists)
    /\ UNCHANGED fakeTemps

\* the test, once the file is gone: os.kill(server_pid, SIGTERM); the server
\* process ends and its open transaction, if any, is lost
KillServer ==
    /\ ~fileExists
    /\ srv = "serving"
    /\ srv' = "stopped"
    /\ spc' = "idle"
    /\ handling' = NoFields
    /\ pending' = <<>>
    /\ UNCHANGED <<clientVars, rpc, committed, dbTables, starts, calls, threads,
                   fakeVars, histVars>>

\* the test, next: os.kill(client_pid, SIGTERM); handle_sigterm calls quit()
KillClient ==
    /\ srv = "stopped"
    /\ ~quit
    /\ Quit

NextE2E ==
    \/ WhileTest({<<"fakesensor">>}, MaxTemps + 2)
    \/ ForNext
    \/ FakeRead
    \/ RpcCall
    \/ RpcReturn
    \/ Sleep
    \/ SrvInsert({"ok"})
    \/ SrvCommit({"ok"})
    \/ KillServer
    \/ KillClient

SpecE2E == InitE2E /\ [][NextE2E]_vars

(* ------------------ _check_temperature_sanity alone ------------------- *)

SanityValues == (0 - SanityRange)..SanityRange
SanityBounds == {None} \cup {Some(x) : x \in SanityValues}

\* a client constructed with any pair of bounds, about to check any
\* temperature
InitSanity ==
    /\ \E low \in SanityBounds, high \in SanityBounds :
          conf = [device_id |-> "unknown", period |-> 60,
                  sanity_check_low |-> low, sanity_check_high |-> high]
    /\ temperature \in SanityValues
    /\ pc = "check"
    /\ outcome = "none"
    /\ quit = FALSE
    /\ cycle = 0
    /\ sensors = <<>>
    /\ idx = 1
    /\ timestamp = 0
    /\ clock = 0
    /\ rpc = NoRpc
    /\ srv = "serving"
    /\ spc = "idle"
    /\ handling = NoFields
    /\ committed = <<>>
    /\ pending = <<>>
    /\ dbTables = 1
    /\ starts = 1
    /\ calls = NoCalls
    /\ threads = NoThreads
    /\ fakeTemps = <<>>
    /\ current = 0
    /\ fileExists = FALSE
    /\ nread = 0
    /\ rpcLog = <<>>
    /\ writeLog = <<>>
    /\ quitCycle = 0

\* self._check_temperature_sanity(sensor.id, temperature) returns or raises
\* SanityCheckError
CheckSanity ==
    /\ pc = "check"
    /\ outcome' = IF CheckTemperatureSanity(temperature, conf.sanity_check_low,
                                            conf.sanity_check_high)
                    THEN "ok" ELSE "SanityCheckError"
    /\ pc' = "checked"
    /\ UNCHANGED <<conf, quit, cycle, sensors, idx, temperature, timestamp, clock,
                   rpc, serverVars, fakeVars, nread, rpcLog, writeLog, quitCycle>>

NextSanity == CheckSanity

SpecSanity == InitSanity /\ [][NextSanity]_vars

(* ------------- the server process, its clients, restarts -------------- *)

\* the database path is new, the server process not yet started
InitServer ==
    /\ srv = "down"
    /\ starts = 0
    /\ dbTables = 0
    /\ committed = <<>>
    /\ pending = <<>>
    /\ calls = NoCalls
    /\ threads = NoThreads
    /\ spc = "idle"
    /\ handling = NoFields
    /\ rpc = NoRpc
    /\ conf = [device_id |-> "unknown", period |-> 60,
               sanity_check_low |-> None, sanity_check_high |-> None]
    /\ quit = FALSE
    /\ pc = "while"
    /\ cycle = 0
    /\ sensors = <<>>
    /\ idx = 1
    /\ temperature = 0
    /\ timestamp = 0
    /\ clock = 0
    /\ fakeTemps = <<>>
    /\ current = 0
    /\ fileExists = FALSE
    /\ outcome = "none"
    /\ nread = 0
    /\ rpcLog = <<>>
    /\ writeLog = <<>>
    /\ quitCycle = 0

\* faulty variant: CREATE TABLE without IF NOT EXISTS
CreateTableUnconditional(tables) ==
    IF tables = 0 THEN [ok |-> TRUE, tables |-> 1]
    ELSE [ok |-> FALSE, tables |-> tables]

\* DBClient.__init__: CREATE TABLE IF NOT EXISTS temperatures (...)
CreateTable(tables) ==
    [ok |-> TRUE, tables |-> IF tables = 0 THEN 1 ELSE tables]

\* faulty variant: opening the database file empties it
OpenRowsTruncating(rows) ==
    <<>>

\* DBClient.__init__: sqlite3.connect("file:...?mode=rwc") opens the file,
\* creating it if missing, and keeps what it holds
OpenRows(rows) ==
    rows

\* run: RemoteTemperatureServer(args) opens the database (DBClient.__init__:
\* connect, create the table, commit), binds the socket, and serve_forever
\* starts; a DBError ends the process
ServerStart ==
    /\ srv \in {"down", "stopped"}
    /\ starts < MaxStarts
    /\ starts' = starts + 1
    /\ committed' = OpenRows(committed)
    /\ pending' = <<>>
    /\ IF CreateTable(dbTables).ok
         THEN /\ dbTables' = CreateTable(dbTables).tables
              /\ srv' = "serving"
         ELSE /\ dbTables' = dbTables
              /\ srv' = "failed"
    /\ UNCHANGED <<clientVars, rpc, spc, handling, calls, threads, fakeVars, histVars>>

\* a client of the server calls record_temperature; without a listening
\* server the connection is refused
ClientCall(c) ==
    /\ calls[c].kind \notin {"request", "taken"}
    /\ clock < MaxCalls
    /\ clock' = clock + 1
    /\ calls' = [calls EXCEPT ![c] =
                    IF srv = "serving"
                      THEN [kind |-> "request",
                            fields |-> [device_id |-> c, sensor_id |-> "s1",
                                        time |-> clock', temperature |-> 0]]
                      ELSE [kind |-> "refused"]]
    /\ UNCHANGED <<conf, quit, pc, cycle, sensors, idx, temperature, timestamp,
                   rpc, srv, spc, handling, committed, pending, dbTables, starts,
                   threads, fakeVars, histVars>>

\* faulty variant: every request is handled in a thread of its own
ServerFreeThreaded ==
    TRUE

\* SimpleXMLRPCServer.serve_forever handles one request at a time: the next
\* one is taken when no request is being handled
ServerFree ==
    \A d \in Clients : threads[d].pc = "idle"

\* record_temperature is dispatched for client c and DBClient.write runs
\* self._connection.execute("INSERT INTO temperatures ...")
HandleInsert(c, outcomes) ==
    /\ srv = "serving"
    /\ ServerFree
    /\ calls[c].kind = "request"
    /\ \E o \in outcomes :
          IF o = "ok"
            THEN /\ pending' = Append(pending, calls[c].fields)
                 /\ threads' = [threads EXCEPT ![c] =
                                   [pc |-> "commit", fields |-> calls[c].fields]]
                 /\ calls' = [calls EXCEPT ![c] = [kind |-> "taken"]]
                 /\ UNCHANGED writeLog
            ELSE /\ pending' = IF o = "error_rollback" THEN <<>> ELSE pending
                 /\ calls' = [calls EXCEPT ![c] = RecordTemperatureReply(WriteRaises(o))]
                 /\ writeLog' = Append(writeLog, [time |-> calls[c].fields.time,
                                                  ok |-> FALSE])
                 /\ UNCHANGED threads
    /\ UNCHANGED <<clientVars, rpc, srv, spc, handling, committed, dbTables, starts,
                   fakeVars, outcome, nread, rpcLog, quitCycle>>

\* DBClient.write runs self._connection.commit() for client c, then
\* record_temperature returns
HandleCommit(c, outcomes) ==
    /\ srv = "serving"
    /\ threads[c].pc = "commit"
    /\ \E o \in outcomes :
          /\ committed' = IF o = "ok" THEN committed \o pending ELSE committed
          /\ pending' = IF o = "error" THEN pending ELSE <<>>
          /\ writeLog' = Append(writeLog, [time |-> threads[c].fields.time,
                                           ok |-> (o = "ok")])
          /\ calls' = [calls EXCEPT ![c] = RecordTemperatureReply(WriteRaises(o))]
    /\ threads' = [threads EXCEPT ![c] = [pc |-> "idle", fields |-> NoFields]]
    /\ UNCHANGED <<clientVars, rpc, srv, spc, handling, dbTables, starts,
                   fakeVars, outcome, nread, rpcLog, quitCycle>>

\* SIGTERM reaches the server, which installs no handler of its own (run,
\* main).  Either the process ends at once: calls received or being handled
\* are cut off and the open transaction is lost.  Or, daemonized, the
\* DaemonContext raises SystemExit where the process is: inside a handler it
\* leaves write before the commit, the dispatcher turns it into a fault, and
\* the server goes on serving.
ServerSigterm ==
    /\ srv = "serving"
    /\ \/ /\ srv' = "stopped"
          /\ threads' = NoThreads
          /\ pending' = <<>>
          /\ calls' = [c \in Clients |->
                          IF calls[c].kind \in {"request", "taken"}
                            THEN [kind |-> "reset"] ELSE calls[c]]
          /\ UNCHANGED writeLog
       \/ \E c \in Clients :
             /\ threads[c].pc = "commit"
             /\ threads' = [threads EXCEPT ![c] = [pc |-> "idle", fields |-> NoFields]]
             /\ calls' = [calls EXCEPT ![c] = RecordTemperatureReply("SystemExit")]
             /\ writeLog' = Append(writeLog, [time |-> threads[c].fields.time,
                                              ok |-> FALSE])
             /\ UNCHANGED <<srv, pending>>
    /\ UNCHANGED <<clientVars, rpc, spc, handling, committed, dbTables, starts,
                   fakeVars, outcome, nread, rpcLog, quitCycle>>

NextServer ==
    \/ ServerStart
    \/ \E c \in Clients : ClientCall(c)
    \/ \E c \in Clients : HandleInsert(c, SqliteOutcomes)
    \/ \E c \in Clients : HandleCommit(c, SqliteOutcomes)
    \/ ServerSigterm

SpecServer == InitServer /\ [][NextServer]_vars

\* the client's steps and the server's steps are scheduled again and again:
\* every read and every call returns or fails in finitely many steps
FairSpec == Spec /\ WF_vars(ClientStep) /\ WF_vars(ServerStep)

(* ------------------------------ claims -------------------------------- *)

Range(seq) == {seq[i] : i \in 1..Len(seq)}
Times(seq) == [i \in 1..Len(seq) |-> seq[i].time]
Distinct(seq) == \A i, j \in 1..Len(seq) : i # j => seq[i] # seq[j]

\* sanity_check_low <= t <= sanity_check_high, an absent bound not counting
InBounds(t) ==
    /\ (conf.sanity_check_low.none \/ conf.sanity_check_low.v <= t)
    /\ (conf.sanity_check_high.none \/ t <= conf.sanity_check_high.v)

\* C1: whenever the record_temperature call ended in a transport-level
\* failure (fault, protocol error, connection error, timeout), the failure
\* was caught: _read_and_record_temperature returned and run_forever is at
\* the head of its for loop, about to take the next sensor.
C1_TransportFailureCaught ==
    outcome \in TransportFailures => pc = "for"

\* C2 as stated: no record_temperature call is issued once quit() has set
\* the flag.
C2_NoRpcAfterQuit ==
    \A i \in 1..Len(rpcLog) : ~rpcLog[i].afterQuit

\* C2 as amended: a record_temperature call issued after quit() set the flag
\* belongs to the poll cycle whose loop test had passed before the flag was
\* set; no later poll cycle issues a call.
C2_NoRpcInLaterCycle ==
    \A i \in 1..Len(rpcLog) : rpcLog[i].afterQuit => rpcLog[i].cycle <= quitCycle

C2_Witness ==
    /\ Len(sensors) = 2
    /\ \E i \in 1..Len(rpcLog) : rpcLog[i].afterQuit
    /\ pc = "returned"

\* C3: once quit() has been called, run_forever eventually returns.
C3_QuitLeadsToReturn ==
    quit ~> (pc = "returned")

\* C4: the record of a write call that raised DBError (record_temperature
\* returned 1) is never among the committed rows, also not after later calls.
C4_FailedWriteNotCommitted ==
    \A i \in 1..Len(writeLog) :
        ~writeLog[i].ok => writeLog[i].time \notin Range(Times(committed))

\* C5: the committed rows are exactly the records of the write calls that
\* succeeded, in the order of the calls.
C5_RowsAreSuccessfulWrites ==
    Times(committed) = Times(SelectSeq(writeLog, LAMBDA w : w.ok))

\* C6: what the server sends back for a record_temperature call is a value,
\* never a fault; the value is 0 or 1; it is 0 exactly if write did not raise,
\* and then the row of the call is committed.
C6_ReplyIsStatus ==
    /\ rpc.kind # "fault"
    /\ rpc.kind = "value" =>
          /\ rpc.result \in {0, 1}
          /\ rpc.result = 0 <=>
                \E i \in 1..Len(writeLog) : writeLog[i].time = timestamp /\ writeLog[i].ok
          /\ rpc.result = 0 => timestamp \in Range(Times(committed))

C6_Witness ==
    /\ rpc.kind = "value"
    /\ rpc.result = 1
    /\ Len(committed) > 0

\* C7: when a poll cycle is over every enumerated sensor has been read, and
\* run_forever does not end by an exception, whatever failed for a sensor.
C7_FailureIsolation ==
    pc \in {"sleep", "while", "returned", "crashed"} =>
        /\ nread = Len(sensors)
        /\ pc # "crashed"

\* C8: every temperature passed to record_temperature, and every row the
\* server holds, satisfies sanity_check_low <= temperature <= sanity_check_high
\* (an absent bound does not constrain).
C8_OnlySaneTransmitted ==
    /\ \A i \in 1..Len(rpcLog) : InBounds(rpcLog[i].temperature)
    /\ \A i \in 1..Len(committed) : InBounds(committed[i].temperature)
    /\ \A i \in 1..Len(pending) : InBounds(pending[i].temperature)

C8_Witness ==
    /\ outcome = "SanityCheckError"
    /\ ~conf.sanity_check_high.none
    /\ Len(committed) > 0

\* C9: a reading (identified by its timestamp) is passed to at most one
\* record_temperature call and is at most one row of the table, and every
\* row is a reading that was sent.
C9_AtMostOnce ==
    /\ Distinct(Times(rpcLog))
    /\ Distinct(Times(committed \o pending))
    /\ Range(Times(committed \o pending)) \subseteq Range(Times(rpcLog))

C9_Witness ==
    /\ Len(writeLog) = 2
    /\ ~writeLog[1].ok
    /\ writeLog[2].ok
    /\ Len(rpcLog) = 2

\* C10: in the end-to-end scenario, once the fake sensor is used up and the
\* server and the client have been signalled, the table holds one row per
\* temperature of the file, in the order of the file, with increasing times
\* (so that ORDER BY time yields them in that order).
C10_StoreHoldsAllReadings ==
    (~fileExists /\ srv = "stopped" /\ quit) =>
        /\ [i \in 1..Len(committed) |-> committed[i].temperature] = fakeTemps
        /\ \A i, j \in 1..Len(committed) : i < j => committed[i].time < committed[j].time

C10_Witness ==
    /\ ~fileExists
    /\ srv = "stopped"
    /\ pc = "returned"
    /\ Len(fakeTemps) = MaxTemps
    /\ fakeTemps[1] # fakeTemps[2]

\* C11: _check_temperature_sanity raises no SanityCheckError if and only if
\* (low is absent or t >= low) and (high is absent or t <= high).
C11_SanityIff ==
    pc = "checked" =>
        ((outcome = "ok") <=>
            /\ (conf.sanity_check_low.none \/ temperature >= conf.sanity_check_low.v)
            /\ (conf.sanity_check_high.none \/ temperature <= conf.sanity_check_high.v))

\* a temperature equal to both bounds is accepted
C11_Witness ==
    /\ pc = "checked"
    /\ outcome = "ok"
    /\ ~conf.sanity_check_low.none
    /\ ~conf.sanity_check_high.none
    /\ temperature = conf.sanity_check_low.v
    /\ temperature = conf.sanity_check_high.v

\* C12: the rows of the table are in the order in which the client issued
\* their calls (timestamps increase along the table), and at the moment a call
\* returns 0 its row is the last row of the table, so that the row of any call
\* issued afterwards comes after it.
C12_StoreOrderIsSendOrder ==
    /\ \A i, j \in 1..Len(committed) : i < j => committed[i].time < committed[j].time
    /\ (rpc.kind = "value" /\ rpc.result = 0) =>
          /\ Len(committed) > 0
          /\ committed[Len(committed)].time = timestamp

\* the second of two successful calls returns 0
C12_Witness ==
    /\ Len(writeLog) = 2
    /\ writeLog[1].ok
    /\ writeLog[2].ok
    /\ Len(committed) = 2
    /\ rpc.kind = "value"
    /\ rpc.result = 0

IsPrefix(a, b) == Len(a) <= Len(b) /\ SubSeq(b, 1, Len(a)) = a

\* C13: every start of the server on the database path, the first as well as
\* a later one after any writes, succeeds, leaves exactly one table
\* temperatures and leaves the stored rows as they were.
C13_OpenIsIdempotent ==
    [][starts' # starts =>
          /\ srv' = "serving"
          /\ dbTables' = 1
          /\ committed' = committed]_vars

\* the server serves after its second start on a path that holds a row
C13_Witness ==
    /\ starts = 2
    /\ srv = "serving"
    /\ Len(committed) > 0

\* C14: the server stops serving only when no call is in flight, and the
\* handler of a call that has inserted its row ends only by the commit and
\* the return of its status.
C14_ShutdownIsCooperative ==
    [][/\ (srv = "serving" /\ srv' = "stopped") =>
             \A c \in Clients : threads[c].pc = "idle"
       /\ \A c \in Clients :
             (threads[c].pc = "commit" /\ threads'[c].pc = "idle") =>
                 calls'[c].kind = "value"]_vars

\* C15: no step of the client clears the shutdown flag once it is set (a
\* further quit() leaves it set), and the step that sets it changes nothing
\* else of the client: configuration, position of the loop, locals, call in
\* flight.
C15_QuitOnlySetsFlag ==
    [][/\ quit => quit'
       /\ (quit' # quit) =>
             UNCHANGED <<conf, pc, cycle, sensors, idx, temperature, timestamp,
                         clock, rpc>>]_vars

\* quit() was called while a call was in flight, and the loop went on
C15_Witness ==
    /\ quit
    /\ quitCycle = 1
    /\ cycle = 1
    /\ pc = "sleep"
    /\ Len(rpcLog) > 0

\* C16: in a poll cycle the sensors are read one by one in the order of the
\* enumeration, each once, and all of them by the end of the cycle; a call is
\* issued for a sensor exactly when its read succeeded and passed the sanity
\* check; and the call for a sensor has returned or failed when the next
\* sensor is read.
C16_EachSensorOncePerCycle ==
    /\ pc \in {"sleep", "while", "returned", "crashed"} => nread = Len(sensors)
    /\ pc \in {"for", "read"} => nread = idx - 1
    /\ pc \in {"rpc", "wait"} => nread = idx
    /\ pc = "read" => rpc.kind = "none"
    /\ pc = "rpc" => timestamp \notin Range(Times(rpcLog))
    /\ pc = "wait" =>
          /\ rpcLog[Len(rpcLog)].time = timestamp
          /\ rpcLog[Len(rpcLog)].cycle = cycle
    /\ outcome = "SanityCheckError" => clock \notin Range(Times(rpcLog))
    /\ Cardinality({i \in 1..Len(rpcLog) : rpcLog[i].cycle = cycle}) <=
          IF outcome \in {"W1ThermSensorError", "SanityCheckError"} \/ pc = "rpc"
            THEN nread - 1 ELSE nread

\* C17: every step (a call that succeeds or fails, a signal, a restart of the
\* server on the same path) leaves the committed rows as a prefix of the
\* committed rows after it: rows are only ever appended.
C17_CommittedOnlyGrows ==
    [][IsPrefix(committed, committed')]_vars

\* a row was stored, the server was restarted, and the table holds two rows
C17_Witness ==
    /\ starts = 2
    /\ srv = "serving"
    /\ Len(committed) = 2
    /\ writeLog[1].ok

\* C18: at most one record_temperature call is between its insert and its
\* commit, and the row inserted last in the open transaction is the row of
\* that call: no other call has inserted since, so its commit commits no row
\* of a call that is still running.
C18_WritesSerialized ==
    /\ Cardinality({c \in Clients : threads[c].pc # "idle"}) <= 1
    /\ \A c \in Clients :
          threads[c].pc = "commit" =>
              /\ pending # <<>>
              /\ pending[Len(pending)] = threads[c].fields

\* one client's call is being handled while the other client's call waits
C18_Witness ==
    /\ threads["c1"].pc = "commit"
    /\ calls["c2"].kind = "request"

====
